---- MODULE Spec2Model ----
(***************************************************************************)
(* lmq_exporter (src/main.go): the lmqCollector, a mutex-guarded lazy      *)
(* cache of an upstream JSON statistics document, republished as eight     *)
(* Prometheus metric vectors labelled by queue.                            *)
(*                                                                         *)
(* Each element of Procs is one goroutine that calls Collect over and      *)
(* over (one scrape per call).  pc[p] is the position of that goroutine    *)
(* inside Collect / updateStats.  Time is a discrete clock `now` advanced  *)
(* by Tick; time.Now() reads it.  Describe can run at any moment.  Spec is *)
(* all of that; FairSpec is the scrapes alone under fair scheduling, for   *)
(* the claim that a call waiting for the mutex gets it.                    *)
(*                                                                         *)
(* The Prometheus client library is not part of the repository: a vector's  *)
(* WithLabelValues(name).Set(v) is taken to create the child if missing and *)
(* store v, and a vector's Collect(ch) to send its children with the values *)
(* they have at that moment.  What a call has sent is kept as a summary     *)
(* (emitted): how many vectors, the first one exactly, the labels, and      *)
(* whether the later ones fit the first.                                    *)
(*                                                                         *)
(* Numbers: JSON numbers and metric values are modelled as naturals.       *)
(* float64(int) (lines 169-172) is exact for |x| < 2^53, and every number  *)
(* of the model is far below that, so Float64 keeps the value.             *)
(***************************************************************************)
EXTENDS Naturals, FiniteSets, Sequences, TLC

\* ------------------------------------------------------------------ bounds
NProcs == 2
MaxTime == 2
MaxInterval == 1
MaxVersion == 1
MaxCalls == 2

Procs == 1..NProcs
QueueNames == {"q1", "q2"}

\* The zero time.Time an lmqCollector is built with (field expired).
ZeroTime == 0

\* ------------------------------------------------------------ metric vecs
\* The eight vectors of lmqCollector, in the order Describe/Collect and the
\* loop body of updateStats go through them.
Metrics ==
  << "size", "memory", "push", "pull",
     "retentionMin", "retentionMax", "retentionMean", "retentionMedian" >>

NMetrics == Len(Metrics)

MetricSet == {Metrics[i] : i \in 1..NMetrics}

\* An empty label -> value map (a vector with no children).
EmptyVec == [q \in {} |-> 0]

\* newLMQCollector: eight vectors without children.
NewVecs == [s \in MetricSet |-> EmptyVec]

\* ------------------------------------------------------ upstream documents
\* The JSON keys of one queue object, as paths.  "Stats.Retention.Mean" is
\* not a key the struct knows (the Mean field is tagged arithmetic_mean).
JSONKeys ==
  << "Size", "Memory", "Stats.Push.Count", "Stats.Pull.Count",
     "Stats.Retention.Min", "Stats.Retention.Max",
     "Stats.Retention.arithmetic_mean", "Stats.Retention.Median" >>

\* The value upstream version v reports for key number i of queue q: all
\* different, so a value stored under the wrong series or queue shows.
QIdx(q) == IF q = "q1" THEN 1 ELSE 2

Val(v, q, i) == v * 100 + QIdx(q) * 10 + i

\* A JSON queue object: null, or an object with some keys.
JNull == [null |-> TRUE, fields |-> EmptyVec]

JObj(f) == [null |-> FALSE, fields |-> f]

FullObj(v, q) == JObj([key \in {JSONKeys[i] : i \in 1..8} |->
                   Val(v, q, CHOOSE i \in 1..8 : JSONKeys[i] = key)])

\* A well-formed document of upstream version v with the queues D.
Doc(D, v) == [kind |-> "json", Queues |-> [q \in D |-> FullObj(v, q)]]

\* A body that is no JSON at all ("not json").
NotJSON == [kind |-> "syntax", Queues |-> EmptyVec]

\* JSON of the wrong shape (e.g. "Queues": 3): Unmarshal reports a type error.
WrongShape == [kind |-> "type", Queues |-> EmptyVec]

\* {} : no Queues key.
NoQueues == [kind |-> "json", Queues |-> EmptyVec]

\* q1 has only Size, and a key the struct ignores; the rest defaults to 0.
Sparse == [kind |-> "json", Queues |-> [q \in {"q1"} |->
             JObj([key \in {"Size", "Stats.Retention.Mean"} |-> 7])]]

\* "q1": null next to a full q2.
NullQueue == [kind |-> "json", Queues |-> [q \in QueueNames |->
                IF q = "q1" THEN JNull ELSE FullObj(1, q)]]

Bodies ==
  {NotJSON, WrongShape, NoQueues, Sparse, NullQueue}
  \cup {Doc(D, v) : D \in {QueueNames, {"q1"}}, v \in 1..MaxVersion}

\* HTTP status codes upstream may answer with.
Statuses == {200, 503}

\* ------------------------------------------------------------ json.Unmarshal
\* A missing key leaves the struct field at its zero value.
Field(o, key) == IF key \in DOMAIN o.fields THEN o.fields[key] ELSE 0

\* One *queueStats: nil for JSON null, else the eight fields by position.
NilStats == [nil |-> TRUE, f |-> [i \in 1..8 |-> 0]]

ParseQueue(o) ==
  IF o.null THEN NilStats
  ELSE [nil |-> FALSE, f |-> [i \in 1..8 |-> Field(o, JSONKeys[i])]]

\* json.Unmarshal(b, &stats): an error, or the lmqStats value.
Unmarshal(b) ==
  IF b.kind # "json"
    THEN [err |-> TRUE, Queues |-> EmptyVec]
    ELSE [err |-> FALSE,
          Queues |-> [q \in DOMAIN b.Queues |-> ParseQueue(b.Queues[q])]]

NoStats == [err |-> FALSE, Queues |-> EmptyVec]

NoBody == [kind |-> "none", Queues |-> EmptyVec]

\* float64(x) of an int field.
Float64(x) == x

\* A Set that adds to the child's value (an Add).
SetChildAdding(vec, name, v) ==
  [q \in (DOMAIN vec) \cup {name} |->
     IF q = name THEN (IF q \in DOMAIN vec THEN vec[q] + v ELSE v) ELSE vec[q]]

\* A Set that replaces the vector's children by the one it sets.
SetChildEvicting(vec, name, v) == [q \in {name} |-> v]

\* c.<vec>.WithLabelValues(name).Set(v): the child is created if missing.
SetChild(vec, name, v) == [q \in (DOMAIN vec) \cup {name} |->
                             IF q = name THEN v ELSE vec[q]]

\* The value the i-th Set of the loop body stores for *queueStats q.
SeriesValue(q, i) == IF i <= 4 THEN Float64(q.f[i]) ELSE q.f[i]

\* A freshness test with its operands swapped.
BeforeSwapped(t, e) == e < t

\* A freshness test that is off by one tick.
BeforeOffByOne(t, e) == t + 1 < e

\* time.Now().Before(c.expired)
Before(t, e) == t < e

\* A lock that never blocks.
CanLockAlways(l) == TRUE

\* c.m.Lock() can proceed
CanLock(l) == ~l

\* An expiry that forgets the interval.
AddNothing(t, d) == t

\* time.Now().Add(c.interval)
Add(t, d) == t + d


\* ------------------------------------------------------------------- state
VARIABLES
  now,        \* the wall clock
  interval,   \* c.interval
  expired,    \* c.expired
  locked,     \* c.m
  vecs,       \* the eight metric vectors: series -> (queue label -> value)
  pc,         \* per goroutine: position in Collect / updateStats
  resp,       \* per goroutine: the HTTP response (status, body) being read
  stats,      \* per goroutine: the local `stats` of updateStats
  todo,       \* per goroutine: keys of stats.Queues the range loop has left
  cur,        \* per goroutine: the loop variable `name`
  k,          \* per goroutine: index of the next Set (or of the next vec to emit)
  err,        \* per goroutine: updateStats is returning a non-nil error
  emitted,    \* history, per call: a summary of what Collect has sent on ch
  fetched,    \* history, per call: the call issued http.Get
  pre,        \* history, per call: expired and vecs when the call got the lock
  last,       \* history: stats.Queues of the most recent successful Unmarshal
  known,      \* history: non-null queues of all successfully parsed snapshots
  written,    \* history: queues some fetch has stored all eight series of
  post,       \* history, per call: `written` and the queues of `last` when the
              \* call released the lock
  panicked,   \* history: some call has panicked
  calls,      \* history: the number of Collect calls so far
  race,       \* history: the calls that met at an expired cache, and what they did
  lastGet,    \* history: the most recent http.Get: when, and how it went
  described   \* history: what the most recent Describe has sent on ch

vars == << now, interval, expired, locked, vecs, pc, resp, stats, todo, cur, k,
           err, emitted, fetched, pre, last, known, written, post, panicked,
           calls, race, lastGet, described >>

locals == << resp, stats, todo, cur, k >>

\* A race: members met at the lock of an expired cache; left are the members
\* still inside updateStats; fetchers issued http.Get; parsed: no member's
\* fetch has failed; installed: a member has set the new c.expired; late: a
\* member ran its freshness check, after that, at a time not before c.expired.
NoRace == [members |-> {}, left |-> {}, fetchers |-> {}, parsed |-> TRUE,
           installed |-> FALSE, late |-> FALSE]

NoPre == [expired |-> ZeroTime, vecs |-> NewVecs]

NoPost == [written |-> {}, last |-> {}]

NoResp == [status |-> 0, body |-> NoBody]

\* The most recent http.Get: any: there was one; at: the time it was issued;
\* ok: its body has parsed; retry: it was issued when the one before had
\* not parsed.
NoGet == [any |-> FALSE, at |-> ZeroTime, ok |-> FALSE, retry |-> FALSE]

\* The eight values one parsed queue object yields, for every queue object
\* upstream can send: the rows a coherent scrape can show for a queue.
Rows ==
  UNION {{ParseQueue(b.Queues[q]).f :
            q \in {x \in DOMAIN b.Queues : ~b.Queues[x].null}} :
         b \in {d \in Bodies : d.kind = "json"}}

\* What a Collect call has sent on ch, summarised:
\*   n      the number of vectors sent so far (0..8)
\*   head   the first vector (size) exactly as sent: label -> value
\*   lo, hi the labels sent with every / with some vector so far
\*   mixed  a later vector did not fit head: other labels, or for some label
\*          a value that no row starting with head's value has at that place
NothingSent == [n |-> 0, head |-> EmptyVec, lo |-> {}, hi |-> {}, mixed |-> FALSE]

Fits(head, vec, i) ==
  /\ DOMAIN vec = DOMAIN head
  /\ \A q \in DOMAIN vec : \E r \in Rows : r[1] = head[q] /\ r[i] = vec[q]

Send(e, vec) ==
  IF e.n = 0
    THEN [n |-> 1, head |-> vec, lo |-> DOMAIN vec, hi |-> DOMAIN vec,
          mixed |-> FALSE]
    ELSE [n |-> e.n + 1, head |-> e.head,
          lo |-> e.lo \cap DOMAIN vec, hi |-> e.hi \cup DOMAIN vec,
          mixed |-> e.mixed \/ ~Fits(e.head, vec, e.n + 1)]

\* newLMQCollector(uri, interval), and no scrape in progress.
Init ==
  /\ now = 1
  /\ interval \in 0..MaxInterval
  /\ expired = ZeroTime
  /\ locked = FALSE
  /\ vecs = NewVecs
  /\ pc = [p \in Procs |-> "idle"]
  /\ resp = [p \in Procs |-> NoResp]
  /\ stats = [p \in Procs |-> NoStats]
  /\ todo = [p \in Procs |-> {}]
  /\ cur = [p \in Procs |-> ""]
  /\ k = [p \in Procs |-> 0]
  /\ err = [p \in Procs |-> FALSE]
  /\ emitted = [p \in Procs |-> NothingSent]
  /\ fetched = [p \in Procs |-> FALSE]
  /\ pre = [p \in Procs |-> NoPre]
  /\ last = EmptyVec
  /\ known = {}
  /\ written = {}
  /\ post = [p \in Procs |-> NoPost]
  /\ panicked = FALSE
  /\ calls = 0
  /\ race = NoRace
  /\ lastGet = NoGet
  /\ described = << >>

\* The clock advances.
Tick ==
  /\ now < MaxTime
  /\ now' = now + 1
  /\ UNCHANGED << lastGet, described,
                  interval, expired, locked, vecs, pc, resp, stats, todo, cur,
                  k, err, emitted, fetched, pre, last, known, written, post,
                  panicked, calls, race >>

\* The registry calls Collect; Collect calls updateStats.
Collect(p) ==
  /\ pc[p] = "idle"
  /\ calls < MaxCalls
  /\ calls' = calls + 1
  /\ pc' = [pc EXCEPT ![p] = "lock"]
  /\ UNCHANGED << lastGet, described,
                  now, interval, expired, locked, vecs, locals, err, emitted,
                  fetched, pre, last, known, written, post, panicked, race >>

\* A race starts when a call takes the free lock of an expired cache while
\* other calls wait for the same lock and no earlier race is still running.
RaceAtLock(p) ==
  LET waiting == {r \in Procs : pc[r] = "lock"} IN
  IF race.left = {} /\ now >= expired /\ Cardinality(waiting) >= 2
    THEN [NoRace EXCEPT !.members = waiting, !.left = waiting]
    ELSE race

\* c.m.Lock()
Lock(p) ==
  /\ pc[p] = "lock"
  /\ CanLock(locked)
  /\ locked' = TRUE
  /\ pc' = [pc EXCEPT ![p] = "check"]
  /\ pre' = [pre EXCEPT ![p] = [expired |-> expired, vecs |-> vecs]]
  /\ race' = RaceAtLock(p)
  /\ UNCHANGED << lastGet, described,
                  now, interval, expired, vecs, locals, err, emitted, fetched,
                  last, known, written, post, panicked, calls >>

\* if time.Now().Before(c.expired) { return nil }; else http.Get is issued.
Check(p) ==
  /\ pc[p] = "check"
  /\ IF Before(now, expired)
       THEN /\ pc' = [pc EXCEPT ![p] = "unlock"]
            /\ UNCHANGED << fetched, lastGet >>
       ELSE /\ pc' = [pc EXCEPT ![p] = "get"]
            /\ fetched' = [fetched EXCEPT ![p] = TRUE]
            /\ lastGet' = [any |-> TRUE, at |-> now, ok |-> FALSE,
                           retry |-> lastGet.any /\ ~lastGet.ok]
  /\ race' = IF p \in race.left
               THEN [race EXCEPT
                       !.fetchers = IF fetched'[p] THEN @ \cup {p} ELSE @,
                       !.late = @ \/ (race.installed /\ now >= expired)]
               ELSE race
  /\ UNCHANGED << described,
                  now, interval, expired, locked, vecs, locals, err, emitted,
                  pre, last, known, written, post, panicked, calls >>

\* http.Get returns a response (of any status: the code does not look at it).
GetOK(p) ==
  /\ pc[p] = "get"
  /\ \E st \in Statuses, b \in Bodies :
       resp' = [resp EXCEPT ![p] = [status |-> st, body |-> b]]
  /\ pc' = [pc EXCEPT ![p] = "read"]
  /\ UNCHANGED << lastGet, described,
                  now, interval, expired, locked, vecs, stats, todo, cur, k,
                  err, emitted, fetched, pre, last, known, written, post,
                  panicked, race, calls >>

\* An error return that has already extended the cache.
ReturnErrExtending(p) ==
  /\ pc' = [pc EXCEPT ![p] = "unlock"]
  /\ err' = [err EXCEPT ![p] = TRUE]
  /\ resp' = [resp EXCEPT ![p] = NoResp]
  /\ race' = IF p \in race.left THEN [race EXCEPT !.parsed = FALSE] ELSE race
  /\ expired' = Add(now, interval)
  /\ UNCHANGED vecs

\* A call of updateStats returns err (lines 155, 160, 164).
ReturnErr(p) ==
  /\ pc' = [pc EXCEPT ![p] = "unlock"]
  /\ err' = [err EXCEPT ![p] = TRUE]
  /\ resp' = [resp EXCEPT ![p] = NoResp]
  /\ race' = IF p \in race.left THEN [race EXCEPT !.parsed = FALSE] ELSE race
  /\ UNCHANGED << expired, vecs >>

\* http.Get returns an error.
GetErr(p) ==
  /\ pc[p] = "get"
  /\ ReturnErr(p)
  /\ UNCHANGED << lastGet, described,
                  now, interval, locked, stats, todo, cur, k, emitted,
                  fetched, pre, last, known, written, post, panicked, calls >>

\* Upstream accepted the request and never answers: http.Get (DefaultClient,
\* no Timeout) never returns.
GetHang(p) ==
  /\ pc[p] = "get"
  /\ pc' = [pc EXCEPT ![p] = "blocked"]
  /\ UNCHANGED << lastGet, described,
                  now, interval, expired, locked, vecs, locals, err, emitted,
                  fetched, pre, last, known, written, post, panicked, race,
                  calls >>

\* ioutil.ReadAll(resp.Body) returns the body.
ReadOK(p) ==
  /\ pc[p] = "read"
  /\ pc' = [pc EXCEPT ![p] = "parse"]
  /\ UNCHANGED << lastGet, described,
                  now, interval, expired, locked, vecs, locals, err, emitted,
                  fetched, pre, last, known, written, post, panicked, race,
                  calls >>

\* ioutil.ReadAll(resp.Body) returns an error.
ReadErr(p) ==
  /\ pc[p] = "read"
  /\ ReturnErr(p)
  /\ UNCHANGED << lastGet, described,
                  now, interval, locked, stats, todo, cur, k, emitted,
                  fetched, pre, last, known, written, post, panicked, calls >>

\* json.Unmarshal(b, &stats)
Parse(p) ==
  /\ pc[p] = "parse"
  /\ LET s == Unmarshal(resp[p].body) IN
       IF s.err
         THEN /\ ReturnErr(p)
              /\ UNCHANGED << stats, last, known, lastGet >>
         ELSE /\ pc' = [pc EXCEPT ![p] = "setexp"]
              /\ stats' = [stats EXCEPT ![p] = s]
              /\ resp' = [resp EXCEPT ![p] = NoResp]
              /\ lastGet' = [lastGet EXCEPT !.ok = TRUE]
              /\ last' = s.Queues
              /\ known' = known \cup {q \in DOMAIN s.Queues : ~s.Queues[q].nil}
              /\ UNCHANGED << err, race, expired, vecs >>
  /\ UNCHANGED << described,
                  now, interval, locked, todo, cur, k, emitted, fetched, pre,
                  written, post, panicked, calls >>

\* c.expired = time.Now().Add(c.interval); the range loop starts.
SetExpired(p) ==
  /\ pc[p] = "setexp"
  /\ expired' = Add(now, interval)
  /\ race' = IF p \in race.left THEN [race EXCEPT !.installed = TRUE] ELSE race
  /\ todo' = [todo EXCEPT ![p] = DOMAIN stats[p].Queues]
  /\ pc' = [pc EXCEPT ![p] = "range"]
  /\ UNCHANGED << lastGet, described,
                  now, interval, locked, vecs, resp, stats, cur, k, err,
                  emitted, fetched, pre, last, known, written, post, panicked,
                  calls >>

\* for name, q := range stats.Queues: the next key in any order, or the end
\* of the loop and return nil.  q.Size of a nil q panics.
Range(p) ==
  /\ pc[p] = "range"
  /\ IF todo[p] = {}
       THEN /\ pc' = [pc EXCEPT ![p] = "unlock"]
            /\ stats' = [stats EXCEPT ![p] = NoStats]
            /\ UNCHANGED << todo, cur, k, panicked >>
       ELSE \E name \in todo[p] :
            IF stats[p].Queues[name].nil
              THEN /\ pc' = [pc EXCEPT ![p] = "panic"]
                   /\ panicked' = TRUE
                   /\ stats' = [stats EXCEPT ![p] = NoStats]
                   /\ todo' = [todo EXCEPT ![p] = {}]
                   /\ UNCHANGED << cur, k >>
              ELSE /\ pc' = [pc EXCEPT ![p] = "set"]
                   /\ cur' = [cur EXCEPT ![p] = name]
                   /\ todo' = [todo EXCEPT ![p] = @ \ {name}]
                   /\ k' = [k EXCEPT ![p] = 1]
                   /\ UNCHANGED << stats, panicked >>
  /\ UNCHANGED << lastGet, described,
                  now, interval, expired, locked, vecs, resp, err, emitted,
                  fetched, pre, last, known, written, post, race, calls >>

\* One line of the loop body: c.<vec k>.WithLabelValues(name).Set(...)
SetSeries(p) ==
  /\ pc[p] = "set"
  /\ vecs' = [vecs EXCEPT ![Metrics[k[p]]] =
                SetChild(@, cur[p], SeriesValue(stats[p].Queues[cur[p]], k[p]))]
  /\ IF k[p] < NMetrics
       THEN /\ k' = [k EXCEPT ![p] = @ + 1]
            /\ UNCHANGED << pc, cur, written >>
       ELSE /\ k' = [k EXCEPT ![p] = 0]
            /\ cur' = [cur EXCEPT ![p] = ""]
            /\ pc' = [pc EXCEPT ![p] = "range"]
            /\ written' = written \cup {cur[p]}
  /\ UNCHANGED << lastGet, described,
                  now, interval, expired, locked, resp, stats, todo, err,
                  emitted, fetched, pre, last, known, post, panicked, race,
                  calls >>

\* A deferred Unlock that is skipped on the error returns.
UnlockOnSuccessOnly(p) ==
  /\ pc[p] \in {"unlock", "panic"}
  /\ locked' = IF err[p] THEN locked ELSE FALSE
  /\ pc' = [pc EXCEPT ![p] = IF pc[p] = "panic" THEN "panicking"
                             ELSE IF err[p] THEN "failed" ELSE "emit"]
  /\ k' = [k EXCEPT ![p] = IF pc[p] = "unlock" /\ ~err[p] THEN 1 ELSE 0]
  /\ post' = [post EXCEPT ![p] = [written |-> written, last |-> DOMAIN last]]
  /\ race' = [race EXCEPT !.left = @ \ {p}]
  /\ UNCHANGED << lastGet, described,
                  now, interval, expired, vecs, resp, stats, todo, cur, err,
                  emitted, fetched, pre, last, known, written, panicked,
                  calls >>

\* defer c.m.Unlock() runs: on return nil, on return err, and on a panic.
Unlock(p) ==
  /\ pc[p] \in {"unlock", "panic"}
  /\ locked' = FALSE
  /\ pc' = [pc EXCEPT ![p] = IF pc[p] = "panic" THEN "panicking"
                             ELSE IF err[p] THEN "failed" ELSE "emit"]
  /\ k' = [k EXCEPT ![p] = IF pc[p] = "unlock" /\ ~err[p] THEN 1 ELSE 0]
  /\ post' = [post EXCEPT ![p] = [written |-> written, last |-> DOMAIN last]]
  /\ race' = [race EXCEPT !.left = @ \ {p}]
  /\ UNCHANGED << lastGet, described,
                  now, interval, expired, vecs, resp, stats, todo, cur, err,
                  emitted, fetched, pre, last, known, written, panicked,
                  calls >>

\* A Collect that serves the stored values after a failed refresh.
CollectFailedServing(p) ==
  /\ pc[p] = "failed"
  /\ pc' = [pc EXCEPT ![p] = "emit"]
  /\ k' = [k EXCEPT ![p] = 1]
  /\ UNCHANGED << lastGet, described,
                  now, interval, expired, locked, vecs, resp, stats, todo,
                  cur, err, emitted, fetched, pre, last, known, written, post,
                  panicked, race, calls >>

\* Collect: err != nil, log and return without sending anything.
CollectFailed(p) ==
  /\ pc[p] = "failed"
  /\ pc' = [pc EXCEPT ![p] = "done"]
  /\ UNCHANGED << lastGet, described,
                  now, interval, expired, locked, vecs, locals, err, emitted,
                  fetched, pre, last, known, written, post, panicked, race,
                  calls >>

\* Collect: c.<vec k>.Collect(ch) sends the vector's children as they are now.
Emit(p) ==
  /\ pc[p] = "emit"
  /\ emitted' = [emitted EXCEPT ![p] = Send(@, vecs[Metrics[k[p]]])]
  /\ IF k[p] < NMetrics
       THEN /\ k' = [k EXCEPT ![p] = @ + 1]
            /\ UNCHANGED pc
       ELSE /\ k' = [k EXCEPT ![p] = 0]
            /\ pc' = [pc EXCEPT ![p] = "done"]
  /\ UNCHANGED << lastGet, described,
                  now, interval, expired, locked, vecs, resp, stats, todo,
                  cur, err, fetched, pre, last, known, written, post,
                  panicked, race, calls >>

\* Collect returns (or its panic has unwound to the caller's recovery); the
\* goroutine is free for the next scrape.
Return(p) ==
  /\ pc[p] \in {"done", "panicking"}
  /\ pc' = [pc EXCEPT ![p] = "idle"]
  /\ err' = [err EXCEPT ![p] = FALSE]
  /\ emitted' = [emitted EXCEPT ![p] = NothingSent]
  /\ fetched' = [fetched EXCEPT ![p] = FALSE]
  /\ pre' = [pre EXCEPT ![p] = NoPre]
  /\ post' = [post EXCEPT ![p] = NoPost]
  /\ UNCHANGED << lastGet, described,
                  now, interval, expired, locked, vecs, locals, last, known,
                  written, panicked, race, calls >>

\* The descriptors of the eight vectors (newLMQCollector): the fully
\* qualified name namespace_subsystem_name and the label names.
Descs ==
  [i \in 1..NMetrics |->
     [name |-> << "lmq_queue_size", "lmq_queue_memory_bytes", "lmq_queue_push",
                  "lmq_queue_pull", "lmq_queue_retention_min",
                  "lmq_queue_retention_max", "lmq_queue_retention_mean",
                  "lmq_queue_retention_median" >>[i],
      vec |-> Metrics[i],
      labelNames |-> << "queue" >>]]

\* A Describe that takes c.m for the time it runs.
DescribeUnderLock ==
  /\ CanLock(locked)
  /\ described' = Descs
  /\ UNCHANGED << now, interval, expired, locked, vecs, pc, locals, err,
                  emitted, fetched, pre, last, known, written, post, panicked,
                  calls, race, lastGet >>

\* Describe: the registry asks for the descriptors, at any moment; each
\* c.<vec>.Describe(ch) sends the descriptor its vector was built with.
Describe ==
  /\ described' = Descs
  /\ UNCHANGED << now, interval, expired, locked, vecs, pc, locals, err,
                  emitted, fetched, pre, last, known, written, post, panicked,
                  calls, race, lastGet >>

\* One step of goroutine p.
Proc(p) ==
  \/ Collect(p) \/ Lock(p) \/ Check(p)
  \/ GetOK(p) \/ GetErr(p) \/ GetHang(p)
  \/ ReadOK(p) \/ ReadErr(p)
  \/ Parse(p) \/ SetExpired(p) \/ Range(p) \/ SetSeries(p)
  \/ Unlock(p) \/ CollectFailed(p) \/ Emit(p) \/ Return(p)

Next == Tick \/ Describe \/ \E p \in Procs : Proc(p)

Spec == Init /\ [][Next]_vars

\* The scrapes main serves: MustRegister has called Describe before
\* ListenAndServe starts, and from then on only Collect calls and the clock
\* take steps.
Serving == Tick \/ \E p \in Procs : Proc(p)

\* Scheduling: a goroutine that can run does run (weak fairness of its
\* steps), and a goroutine waiting in c.m.Lock() gets the mutex when it is
\* released again and again (sync.Mutex hands the lock to a starving waiter).
FairSpec ==
  /\ Init
  /\ [][Serving]_vars
  /\ \A p \in Procs : WF_vars(Proc(p)) /\ SF_vars(Lock(p))

\* ------------------------------------------------------------------ claims
\* Positions between c.m.Lock() returning and the deferred c.m.Unlock().
Critical ==
  {"check", "get", "read", "parse", "setexp", "range", "set", "unlock",
   "blocked", "panic"}

\* C1: a call whose freshness check runs strictly before validUntil returns
\* nil at once, issues no fetch and changes nothing; a fetch is issued only by
\* a call that finds now >= validUntil; and a successful parse at time T sets
\* validUntil = T + refreshInterval.
C1_Freshness ==
  [][\A p \in Procs :
       /\ (pc[p] = "check" /\ now < expired /\ pc'[p] # "check")
            => /\ pc'[p] = "unlock"
               /\ ~fetched'[p] /\ ~err'[p]
               /\ expired' = expired /\ vecs' = vecs
       /\ (~fetched[p] /\ fetched'[p]) => (pc[p] = "check" /\ now >= expired)
       /\ (pc[p] = "setexp" /\ pc'[p] # "setexp")
            => expired' = now + interval]_vars

\* A call has found the cache fresh, after an earlier successful fetch, and
\* is returning without a fetch.
C1_Witness ==
  \E p \in Procs :
    /\ pc[p] = "unlock" /\ ~fetched[p] /\ ~err[p]
    /\ now < expired /\ expired = pre[p].expired /\ written # {}

\* A finished race: N >= 2 calls that met at the lock of an expired cache
\* have all left updateStats, and every reply they got parsed.
RaceOver ==
  /\ Cardinality(race.members) >= 2
  /\ race.left = {}
  /\ race.parsed

\* C2 as stated: of N >= 2 calls that start together at an expired cache and
\* get parseable replies, exactly one issues an upstream fetch (stated here
\* for a positive refreshInterval only).
C2_ExactlyOneFetch ==
  (RaceOver /\ interval > 0) => Cardinality(race.fetchers) = 1

\* C2, amended: exactly one of them fetches provided every other one runs its
\* freshness check before the validUntil the first one has set.
C2_OneFetchUnlessLate ==
  /\ RaceOver => Cardinality(race.fetchers) >= 1
  /\ (RaceOver /\ ~race.late) => Cardinality(race.fetchers) = 1

\* Two calls raced, one fetched, the other waited and found the cache fresh.
C2_Witness ==
  /\ RaceOver /\ ~race.late /\ race.installed
  /\ Cardinality(race.fetchers) = 1

\* C3: everything one Collect sends comes from one snapshot state: the eight
\* vectors carry the same labels, and the eight values of a label are those
\* of one parsed queue object.
C3_CoherentScrape == \A p \in Procs : ~emitted[p].mixed

\* C4: when a call's fetch, body read or parse fails, validUntil and all
\* series values are, when the call is about to release the guard, what they
\* were when it took the guard.
C4_FailureLeavesState ==
  \A p \in Procs :
    (pc[p] = "unlock" /\ err[p])
      => (expired = pre[p].expired /\ vecs = pre[p].vecs)

\* A fetch has failed after an earlier one had installed values.
C4_Witness ==
  \E p \in Procs :
    /\ pc[p] = "unlock" /\ err[p] /\ fetched[p]
    /\ pre[p].expired # ZeroTime /\ written # {}

\* C5: a scrape whose fetch fails, after a successful fetch established the
\* values V, sends V: all eight vectors, with V's labels and values.
C5_StaleButAvailable ==
  \A p \in Procs :
    (pc[p] = "done" /\ err[p] /\ fetched[p] /\ DOMAIN pre[p].vecs["size"] # {})
      => /\ emitted[p].n = NMetrics
         /\ emitted[p].head = pre[p].vecs["size"]
         /\ ~emitted[p].mixed

\* A queue keeps its series and their values over a fetch whose snapshot
\* lacks it.
Retained(p) ==
  \A s \in MetricSet : \A q \in DOMAIN pre[p].vecs[s] :
    q \notin DOMAIN last
      => (q \in DOMAIN vecs[s] /\ vecs[s][q] = pre[p].vecs[s][q])

\* C6: no step removes a queue from a vector, a step changes a queue's value
\* only while that queue's snapshot is being stored, a successful fetch whose
\* snapshot lacks a queue leaves all its series as they were, and a scrape
\* that sends its vectors sends every queue stored when it left the guard.
C6_StaleQueueRetention ==
  /\ [](\A p \in Procs :
          /\ (pc[p] = "unlock" /\ fetched[p] /\ ~err[p]) => Retained(p)
          /\ (pc[p] = "done" /\ ~err[p])
               => post[p].written \subseteq emitted[p].lo)
  /\ [][\A s \in MetricSet : \A q \in DOMAIN vecs[s] :
          /\ q \in DOMAIN vecs'[s]
          /\ (q \notin DOMAIN last) => vecs'[s][q] = vecs[s][q]]_vars

\* A successful fetch is over whose snapshot lacks a queue stored before.
C6_Witness ==
  \E p \in Procs :
    /\ pc[p] = "unlock" /\ fetched[p] /\ ~err[p]
    /\ \E q \in DOMAIN pre[p].vecs["retentionMedian"] : q \notin DOMAIN last

\* A scrape that sent all eight vectors, each with exactly the queues that
\* were stored when the call left the guard, and no call has panicked.
PlainScrape(p) ==
  /\ pc[p] = "done" /\ ~err[p]
  /\ ~panicked
  /\ emitted[p].lo = post[p].written /\ emitted[p].hi = post[p].written

\* C7 as stated: the queues a scrape sends are exactly those of the last
\* successfully fetched snapshot.
C7_ExactlyLastSnapshot ==
  \A p \in Procs : PlainScrape(p) => emitted[p].hi = post[p].last

\* C7, amended: a scrape that sends its vectors sends, with each of them,
\* every queue stored when it left the guard, and only queues that some
\* successfully parsed snapshot contained: queues accumulate over snapshots.
C7_AccumulatedQueues ==
  \A p \in Procs :
    (pc[p] = "done" /\ ~err[p])
      => /\ emitted[p].n = NMetrics
         /\ post[p].written \subseteq emitted[p].lo
         /\ emitted[p].hi \subseteq known

\* A scrape has sent a queue that the snapshot last fetched before it does
\* not contain.
C7_Witness ==
  \E p \in Procs :
    PlainScrape(p) /\ \E q \in emitted[p].lo : q \notin post[p].last

\* C8: whenever the guard is free, the eight series of every (non-null) queue
\* of the most recent successfully parsed snapshot hold its eight fields, in
\* the order size, memory, push, pull, retention min, max, mean, median.
C8_Relabeling ==
  ~locked =>
    \A q \in DOMAIN last : ~last[q].nil =>
      \A i \in 1..NMetrics :
        /\ q \in DOMAIN vecs[Metrics[i]]
        /\ vecs[Metrics[i]][q] = last[q].f[i]

\* C9: at most one call is between c.m.Lock() and c.m.Unlock(), and then the
\* lock is held.
C9_MutualExclusion ==
  /\ Cardinality({p \in Procs : pc[p] \in Critical}) <= 1
  /\ (\E p \in Procs : pc[p] \in Critical) => locked

\* A call waits for the lock while another has its request in flight.
C9_Witness ==
  \E p, r \in Procs : p # r /\ pc[p] = "get" /\ pc[r] = "lock"

\* C10: a call whose upstream never answers can still take a step (its
\* request times out), and so can every call waiting for the guard.
C10_BoundedFetch ==
  (\E p \in Procs : pc[p] = "blocked")
    => \A r \in Procs : pc[r] \in {"blocked", "lock"} => ENABLED Proc(r)

\* C11 as stated: whether fetches succeed or fail, two upstream requests with
\* no expiration between them (validUntil lay before the earlier request and
\* has not moved) are at least refreshInterval apart: one window of that
\* length never holds both.
C11_BoundedLoad ==
  [][\A p \in Procs :
       (~fetched[p] /\ fetched'[p] /\ lastGet.any /\ expired < lastGet.at)
         => now >= lastGet.at + interval]_vars

\* C11, amended: a request that follows a request whose body parsed is issued
\* at least refreshInterval after it, however many calls arrive.
C11_SpacedAfterSuccess ==
  [][\A p \in Procs :
       (~fetched[p] /\ fetched'[p] /\ lastGet.any /\ lastGet.ok)
         => now >= lastGet.at + interval]_vars

\* A request is in flight that follows a request whose body parsed, with a
\* positive refreshInterval.
C11_Witness ==
  \E p \in Procs :
    /\ pc[p] = "get" /\ interval > 0
    /\ lastGet.any /\ ~lastGet.retry /\ expired # ZeroTime

\* An HTTP status outside 200..299.
NonSuccess(st) == st # 0 /\ st \notin 200..299

\* C12: a call that holds a response with a non-2xx status, whatever its
\* body, returns an error instead of using the body (as after a transport
\* failure), and that step leaves validUntil and every series as they were.
C12_NonSuccessIsFailure ==
  [][\A p \in Procs :
       (pc[p] = "parse" /\ NonSuccess(resp[p].status) /\ pc'[p] # "parse")
         => /\ pc'[p] = "unlock" /\ err'[p]
            /\ expired' = expired /\ vecs' = vecs]_vars

\* C13: no call panics, whatever upstream answers.
C13_NoCrash == \A p \in Procs : pc[p] \notin {"panic", "panicking"}

\* C14: a call whose refresh has failed has sent nothing, at any point up to
\* its return; a call that returns after a fresh cache or a successful
\* refresh has sent all eight vectors.
C14_NothingOnFailure ==
  \A p \in Procs :
    /\ err[p] => emitted[p].n = 0
    /\ (pc[p] = "done" /\ ~err[p]) => emitted[p].n = NMetrics

\* A scrape whose fetch failed is over, and there were stored values to send.
C14_Witness ==
  \E p \in Procs :
    pc[p] = "done" /\ err[p] /\ fetched[p] /\ written # {}

\* C15: before the first call validUntil is the zero time and no vector has
\* a child; and a call that runs its freshness check while validUntil is
\* still the zero time (the first call, at any time and interval) issues an
\* upstream request.
C15_FirstCallFetches ==
  /\ [](calls = 0 => (expired = ZeroTime /\ vecs = NewVecs))
  /\ [][\A p \in Procs :
          (pc[p] = "check" /\ expired = ZeroTime /\ pc'[p] # "check")
            => (pc'[p] = "get" /\ fetched'[p])]_vars

\* The first call has issued its request, not at the initial time and with a
\* positive refreshInterval.
C15_Witness ==
  \E p \in Procs :
    /\ calls = 1 /\ pc[p] = "get" /\ fetched[p]
    /\ expired = ZeroTime /\ now > 1 /\ interval > 0

\* C16: when a successful fetch is over, the push and pull series of every
\* queue of its snapshot hold that snapshot's counts, whatever they held
\* before.
C16_CountersAreSet ==
  \A p \in Procs :
    (pc[p] = "unlock" /\ fetched[p] /\ ~err[p])
      => \A q \in DOMAIN last :
           /\ q \in DOMAIN vecs["push"] /\ vecs["push"][q] = last[q].f[3]
           /\ q \in DOMAIN vecs["pull"] /\ vecs["pull"][q] = last[q].f[4]

\* A successful fetch has lowered a queue's push counter.
C16_Witness ==
  \E p \in Procs :
    /\ pc[p] = "unlock" /\ fetched[p] /\ ~err[p]
    /\ \E q \in DOMAIN last \cap DOMAIN pre[p].vecs["push"] :
         vecs["push"][q] < pre[p].vecs["push"][q]

\* C17: Describe can run in every state (also while the guard is held), what
\* it sends is the same eight descriptors every time, and a Describe step
\* changes neither validUntil nor a series nor the guard nor any call's
\* position, and issues no request.
C17_DescribeIsPure ==
  /\ [](described \in {<< >>, Descs} /\ ENABLED Describe)
  /\ [][described' # described
          => /\ described' = Descs
             /\ UNCHANGED << expired, vecs, locked, pc, fetched, lastGet >>]_vars

\* Describe has run, and a call holds the guard with its request in flight.
C17_Witness ==
  described = Descs /\ locked /\ \E p \in Procs : pc[p] = "get"

\* C18: the guard is held only while some call is between Lock and Unlock
\* (never by a call that has left updateStats), and a call waiting for the
\* guard gets it, unless some upstream request never returns.
C18_GuardReleased ==
  /\ [](locked => \E p \in Procs : pc[p] \in Critical)
  /\ \A p \in Procs :
       (pc[p] = "lock") ~> (pc[p] = "check" \/ \E r \in Procs : pc[r] = "blocked")

\* A call that waited for the guard has it, after the call before it left
\* updateStats with an error.
C18_Witness ==
  \E p, r \in Procs :
    /\ p # r /\ {p, r} \subseteq race.members
    /\ pc[r] = "failed" /\ pc[p] = "check" /\ locked

\* C19: a call that runs its freshness check when the most recent request
\* has failed issues a request; and a call whose request, issued after a
\* failed one, parses sets validUntil = now + refreshInterval and has stored
\* all eight values of every queue of its snapshot when the fetch is over.
C19_RetryWithoutBackoff ==
  /\ [](\A p \in Procs :
          (pc[p] = "unlock" /\ fetched[p] /\ ~err[p] /\ lastGet.retry)
            => \A q \in DOMAIN last : \A i \in 1..NMetrics :
                 /\ q \in DOMAIN vecs[Metrics[i]]
                 /\ vecs[Metrics[i]][q] = last[q].f[i])
  /\ [][\A p \in Procs :
          /\ (pc[p] = "check" /\ lastGet.any /\ ~lastGet.ok /\ pc'[p] # "check")
               => (pc'[p] = "get" /\ fetched'[p])
          /\ (pc[p] = "setexp" /\ lastGet.retry /\ pc'[p] # "setexp")
               => expired' = now + interval]_vars

\* A fetch issued after a failed one has succeeded and stored a snapshot.
C19_Witness ==
  \E p \in Procs :
    /\ pc[p] = "unlock" /\ fetched[p] /\ ~err[p]
    /\ lastGet.retry /\ lastGet.ok /\ DOMAIN last # {}

====
